---------------------------- MODULE Spec2Model ----------------------------
(***************************************************************************)
(* Model of the Text-Track diff engine (js/diff-engine.js) and of the      *)
(* Tokenizer it depends on (js/app.js).                                    *)
(*                                                                         *)
(* A JavaScript string is modelled as a sequence of character codes        *)
(* (charCodeAt values): 97 = "a", 65 = "A", 32 = " ", 10 = "\n", ...       *)
(* JavaScript arrays are 0-based; the model keeps 0-based indices in every *)
(* record it stores and converts only when it reads a TLA+ sequence.       *)
(***************************************************************************)
EXTENDS Integers, Sequences, FiniteSets, TLC

(***************************************************************************)
(* Generic helpers for 0-based arrays, null and undefined.                 *)
(***************************************************************************)
\* null and undefined are encoded as two integers that are no index, so that
\* a nullable index stays comparable with an index
Null == -1

Undefined == -2

\* the value read where a token is expected and the array has none
UndefinedWord == [text |-> <<>>, index |-> Undefined, trailingSpace |-> <<>>]

\* arr[i] of JavaScript on an array of tokens: undefined outside 0 .. length-1
At(arr, i) == IF i >= 0 /\ i < Len(arr) THEN arr[i + 1] ELSE UndefinedWord

\* v || null
OrNull(v) == IF v = Undefined \/ v = Null \/ v = 0 THEN Null ELSE v

SetMax(S) == CHOOSE m \in S : \A n \in S : n <= m

SetMin(S) == CHOOSE m \in S : \A n \in S : m <= n

RECURSIVE Concat(_)
\* the concatenation of a sequence of strings
Concat(ss) == IF ss = <<>> THEN <<>> ELSE Head(ss) \o Concat(Tail(ss))

(***************************************************************************)
(* Characters.                                                             *)
(***************************************************************************)
\* \s of a JavaScript regular expression and the set trimmed by trim(),
\* restricted to ASCII: tab, LF, VT, FF, CR, space
IsSpace(c) == c \in {9, 10, 11, 12, 13, 32}

\* \p{L} or \p{N}, restricted to ASCII
IsLetterOrNumber(c) == (c \in 48..57) \/ (c \in 65..90) \/ (c \in 97..122)

\* toLowerCase on one ASCII character
LowerChar(c) == IF c \in 65..90 THEN c + 32 ELSE c

toLowerCase(s) == [i \in 1..Len(s) |-> LowerChar(s[i])]

\* String.prototype.trim
trim(s) ==
  LET idx == {i \in 1..Len(s) : ~IsSpace(s[i])}
  IN  IF idx = {} THEN <<>> ELSE SubSeq(s, SetMin(idx), SetMax(idx))

(***************************************************************************)
(* Tokenizer.splitParagraphs                                               *)
(***************************************************************************)
RECURSIVE NormalizeLineEndings(_)
\* text.replace(/\r\n/g, '\n')
NormalizeLineEndings(s) ==
  IF s = <<>> THEN <<>>
  ELSE IF Len(s) >= 2 /\ s[1] = 13 /\ s[2] = 10
       THEN <<10>> \o NormalizeLineEndings(SubSeq(s, 3, Len(s)))
       ELSE <<s[1]>> \o NormalizeLineEndings(Tail(s))

\* The end (1-based, inclusive) of the match of /\n\s*\n/ that starts at
\* position p, or 0 when there is none: \s* is greedy and backtracks to the
\* last newline of the whitespace run that follows s[p].
BlankLineMatchEnd(s, p) ==
  IF s[p] # 10 THEN 0
  ELSE LET qs == {q \in (p + 1)..Len(s) :
                    s[q] = 10 /\ \A r \in (p + 1)..(q - 1) : IsSpace(s[r])}
       IN  IF qs = {} THEN 0 ELSE SetMax(qs)

RECURSIVE SplitBlankLines(_, _, _)
\* s.split(/\n\s*\n/): the pieces of s between the leftmost matches; p is the
\* scan position and start the beginning of the current piece.
SplitBlankLines(s, p, start) ==
  IF p > Len(s) THEN <<SubSeq(s, start, Len(s))>>
  ELSE LET e == BlankLineMatchEnd(s, p)
       IN  IF e = 0 THEN SplitBlankLines(s, p + 1, start)
           ELSE <<SubSeq(s, start, p - 1)>> \o SplitBlankLines(s, e + 1, e + 1)

\* splitParagraphs without the trim of the pieces
splitParagraphsUntrimmed(text) ==
  LET pieces == SplitBlankLines(NormalizeLineEndings(text), 1, 1)
  IN  SelectSeq(pieces, LAMBDA p : Len(p) > 0)

splitParagraphs(text) ==
  LET pieces  == SplitBlankLines(NormalizeLineEndings(text), 1, 1)
      trimmed == [i \in 1..Len(pieces) |-> trim(pieces[i])]
  IN  SelectSeq(trimmed, LAMBDA p : Len(p) > 0)

(***************************************************************************)
(* Tokenizer.tokenizeWords                                                 *)
(***************************************************************************)
\* \S+ and \s* are greedy: the end of the maximal run of non-whitespace
\* (of whitespace) characters that starts at p, p - 1 when the run is empty
WordRunEnd(s, p) ==
  LET stops == {q \in p..Len(s) : IsSpace(s[q])}
  IN  IF stops = {} THEN Len(s) ELSE SetMin(stops) - 1

SpaceRunEnd(s, p) ==
  LET stops == {q \in p..Len(s) : ~IsSpace(s[q])}
  IN  IF stops = {} THEN Len(s) ELSE SetMin(stops) - 1

RECURSIVE TokenizeFrom(_, _, _)
\* the loop over regex.exec of /(\S+)(\s*)/gu from lastIndex = pos - 1
TokenizeFrom(s, pos, index) ==
  LET starts == {q \in pos..Len(s) : ~IsSpace(s[q])}
  IN  IF starts = {} THEN <<>>
      ELSE LET b  == SetMin(starts)
               e  == WordRunEnd(s, b)
               f  == SpaceRunEnd(s, e + 1)
               ws == SubSeq(s, e + 1, f)
           IN  <<[text |-> SubSeq(s, b, e),
                  index |-> index,
                  trailingSpace |-> IF ws = <<>> THEN <<32>> ELSE ws]>>
               \o TokenizeFrom(s, f + 1, index + 1)

tokenizeWords(paragraph) == TokenizeFrom(paragraph, 1, 0)

(***************************************************************************)
(* Tokenizer.fingerprint                                                   *)
(***************************************************************************)
RECURSIVE CollapseSpaces(_)
\* s.replace(/\s+/g, ' ')
CollapseSpaces(s) ==
  IF s = <<>> THEN <<>>
  ELSE IF IsSpace(s[1])
       THEN LET e == SpaceRunEnd(s, 1)
            IN  <<32>> \o CollapseSpaces(SubSeq(s, e + 1, Len(s)))
       ELSE <<s[1]>> \o CollapseSpaces(Tail(s))

\* Normalize with the whitespace collapsed before the other characters are
\* removed
NormalizeCollapseFirst(text) ==
  LET collapsed == CollapseSpaces(toLowerCase(text))
  IN  trim(SelectSeq(collapsed, LAMBDA c : IsLetterOrNumber(c) \/ IsSpace(c)))

\* the normalized text the hash runs over
Normalize(text) ==
  LET lower    == toLowerCase(text)
      stripped == SelectSeq(lower, LAMBDA c : IsLetterOrNumber(c) \/ IsSpace(c))
  IN  trim(CollapseSpaces(stripped))

\* let hash = 5381
HashSeed == 5381

RECURSIVE Djb2(_, _, _)
\* hash = ((hash << 5) + hash) + charCode, i.e. hash * 33 + charCode, and the
\* final hash >>> 0: the value modulo 2^32, kept as two 16-bit halves
\* <<hi, lo>> (hash = hi * 65536 + lo) so that no intermediate value leaves
\* the range of the model checker's integers.
Djb2(s, hi, lo) ==
  IF s = <<>> THEN <<hi, lo>>
  ELSE LET l == lo * 33 + s[1]
       IN  Djb2(Tail(s), (hi * 33 + (l \div 65536)) % 65536, l % 65536)

fingerprint(text) ==
  Djb2(Normalize(text), HashSeed \div 65536, HashSeed % 65536)

(***************************************************************************)
(* DiffEngine.myersDiff and DiffEngine.backtrack                           *)
(*                                                                         *)
(* The run of myersDiff on (oldTokens, newTokens) is a record              *)
(*   phase   "forward" | "backtrack" | "done" | "threw"                    *)
(*   V       the Map V: a function from the diagonals that were set        *)
(*   trace   the array of snapshots of V                                   *)
(*   D, k    the loop variables of the forward phase (the next iteration)  *)
(*   x, y    the point reached by the last forward iteration, then the     *)
(*           position of backtrack                                         *)
(*   d       the loop variable of backtrack (the next iteration)           *)
(*   operations  the array built by backtrack                              *)
(* ForwardStep is one iteration of the inner for loop, BacktrackStep one   *)
(* iteration of the loop of backtrack.                                     *)
(***************************************************************************)
\* V.get(k) || 0
VGet(V, k) == IF k \in DOMAIN V THEN V[k] ELSE 0

\* V.set(k, x)
VSet(V, k, x) == [j \in (DOMAIN V) \cup {k} |-> IF j = k THEN x ELSE V[j]]

\* FromAbove with the comparison of the two reaches turned round
FromAboveReversed(V, D, k) ==
  k = -D \/ (k # D /\ VGet(V, k - 1) > VGet(V, k + 1))

\* FromAbove with the two reaches compared by <= instead of <
FromAboveOnTie(V, D, k) ==
  k = -D \/ (k # D /\ VGet(V, k - 1) <= VGet(V, k + 1))

\* the condition of lines 31 and 72: take the reach of diagonal k + 1
FromAbove(V, D, k) ==
  k = -D \/ (k # D /\ VGet(V, k - 1) < VGet(V, k + 1))

RECURSIVE Slide(_, _, _, _)
\* while (x < N && y < M && oldTokens[x].text === newTokens[y].text) x++, y++
\* Reading .text of undefined throws a TypeError.
Slide(oldTokens, newTokens, x, y) ==
  IF x < Len(oldTokens) /\ y < Len(newTokens)
  THEN IF x < 0 \/ y < 0
       THEN [x |-> x, y |-> y, threw |-> TRUE]
       ELSE IF At(oldTokens, x).text = At(newTokens, y).text
            THEN Slide(oldTokens, newTokens, x + 1, y + 1)
            ELSE [x |-> x, y |-> y, threw |-> FALSE]
  ELSE [x |-> x, y |-> y, threw |-> FALSE]

MyersStart ==
  [phase |-> "forward", V |-> (1 :> 0), trace |-> <<>>, D |-> 0, k |-> 0,
   x |-> 0, y |-> 0, d |-> 0, operations |-> <<>>]

\* AtEnd with one of the two ends reached
AtEitherEnd(x, y, N, M) == x >= N \/ y >= M

\* the condition of the break of line 46
AtEnd(x, y, N, M) == x >= N /\ y >= M

\* One iteration of the loop over k (lines 28-49), with the push of the
\* snapshot (line 26) when it is the first of its round and the step to the
\* next round, or out of the loop, when it is the last.
ForwardStep(oldTokens, newTokens, s) ==
  LET N     == Len(oldTokens)
      M     == Len(newTokens)
      MAX   == N + M
      trace == IF s.k = -s.D THEN Append(s.trace, s.V) ELSE s.trace
      x0    == IF FromAbove(s.V, s.D, s.k)
               THEN VGet(s.V, s.k + 1)
               ELSE VGet(s.V, s.k - 1) + 1
      sl    == Slide(oldTokens, newTokens, x0, x0 - s.k)
      V     == VSet(s.V, s.k, sl.x)
      base  == [s EXCEPT !.trace = trace, !.x = sl.x, !.y = sl.y]
  IN  IF sl.threw THEN [base EXCEPT !.phase = "threw"]
      ELSE IF AtEnd(sl.x, sl.y, N, M)
      THEN \* break outer; backtrack starts from the lengths
           [base EXCEPT !.V = V, !.phase = "backtrack",
                        !.d = Len(trace) - 1]
      ELSE IF s.k + 2 <= s.D
      THEN [base EXCEPT !.V = V, !.k = s.k + 2]
      ELSE IF s.D + 1 <= MAX
      THEN [base EXCEPT !.V = V, !.D = s.D + 1, !.k = -(s.D + 1)]
      ELSE \* the loop ends without a break
           [base EXCEPT !.V = V, !.D = s.D + 1, !.phase = "backtrack",
                        !.d = Len(trace) - 1]

\* EqualOps with the token read before x is decremented
EqualOpsBeforeDecrement(oldTokens, x, n) ==
  [i \in 1..n |-> [type |-> "equal", word |-> At(oldTokens, x - n + i)]]

\* the equal operations of the while loop of lines 81-88, in array order
EqualOps(oldTokens, x, n) ==
  [i \in 1..n |-> [type |-> "equal", word |-> At(oldTokens, x - n + i - 1)]]

\* EditOp with the two types exchanged
EditOpSwapped(oldTokens, newTokens, x, y, prevX) ==
  IF x = prevX
  THEN [type |-> "delete", word |-> At(newTokens, y - 1)]
  ELSE [type |-> "insert", word |-> At(oldTokens, x - 1)]

\* the operation of lines 90-103, emitted at (x, y) after the slide back
EditOp(oldTokens, newTokens, x, y, prevX) ==
  IF x = prevX
  THEN [type |-> "insert", word |-> At(newTokens, y - 1)]
  ELSE [type |-> "delete", word |-> At(oldTokens, x - 1)]

\* One iteration of the loop of backtrack (lines 67-105); bx, by are the
\* x and y the iteration starts with.
BacktrackStep(oldTokens, newTokens, s, bx, by) ==
  LET V     == s.trace[s.d + 1]
      k     == bx - by
      prevK == IF FromAbove(V, s.d, k) THEN k + 1 ELSE k - 1
      prevX == VGet(V, prevK)
      prevY == prevX - prevK
      n     == IF bx > prevX /\ by > prevY
               THEN (IF bx - prevX < by - prevY THEN bx - prevX ELSE by - prevY)
               ELSE 0
      x1    == bx - n
      y1    == by - n
      eqs   == EqualOps(oldTokens, bx, n)
      edit  == IF s.d > 0
               THEN <<EditOp(oldTokens, newTokens, x1, y1, prevX)>>
               ELSE <<>>
      x2    == IF s.d > 0 /\ x1 # prevX THEN x1 - 1 ELSE x1
      y2    == IF s.d > 0 /\ x1 = prevX THEN y1 - 1 ELSE y1
  IN  [s EXCEPT !.x = x2, !.y = y2,
                !.operations = edit \o eqs \o s.operations,
                !.d = s.d - 1,
                !.phase = IF s.d = 0 THEN "done" ELSE "backtrack"]

\* the step of a run that is not over; backtrack starts at (N, M)
MyersStep(oldTokens, newTokens, s) ==
  IF s.phase = "forward" THEN ForwardStep(oldTokens, newTokens, s)
  ELSE IF s.d = Len(s.trace) - 1
       THEN BacktrackStep(oldTokens, newTokens, s,
                          Len(oldTokens), Len(newTokens))
       ELSE BacktrackStep(oldTokens, newTokens, s, s.x, s.y)

RECURSIVE MyersRun(_, _, _)
MyersRun(oldTokens, newTokens, s) ==
  IF s.phase \in {"done", "threw"} THEN s
  ELSE MyersRun(oldTokens, newTokens, MyersStep(oldTokens, newTokens, s))

\* myersDiff(oldTokens, newTokens): the operations, or Undefined when the
\* call throws
myersDiff(oldTokens, newTokens) ==
  IF Len(oldTokens) + Len(newTokens) = 0 THEN <<>>
  ELSE LET r == MyersRun(oldTokens, newTokens, MyersStart)
       IN  IF r.phase = "threw" THEN Undefined ELSE r.operations

(***************************************************************************)
(* DiffEngine.detectMovedParagraphs                                        *)
(***************************************************************************)
\* IsMove without the test that the revised paragraph is still unmatched
IsMoveRevisedReused(originalParas, revisedParas, i, j, mo, mr) ==
  /\ fingerprint(originalParas[i + 1]) = fingerprint(revisedParas[j + 1])
  /\ i # j
  /\ i \notin mo

\* IsMove without the test that the two fingerprints are equal
IsMoveAnyFingerprint(originalParas, revisedParas, i, j, mo, mr) ==
  /\ i # j
  /\ i \notin mo
  /\ j \notin mr

\* IsMove without the test that the two indices differ
IsMoveAnyIndex(originalParas, revisedParas, i, j, mo, mr) ==
  /\ fingerprint(originalParas[i + 1]) = fingerprint(revisedParas[j + 1])
  /\ i \notin mo
  /\ j \notin mr

\* the condition of lines 136-139; mo and mr are matchedOriginal and
\* matchedRevised
IsMove(originalParas, revisedParas, i, j, mo, mr) ==
  /\ fingerprint(originalParas[i + 1]) = fingerprint(revisedParas[j + 1])
  /\ i # j
  /\ i \notin mo
  /\ j \notin mr

\* moves.push of lines 140-145
NewMove(originalParas, i, j) ==
  [fromIndex |-> i, toIndex |-> j,
   fingerprint |-> fingerprint(originalParas[i + 1]),
   text |-> originalParas[i + 1]]

RECURSIVE DetectFrom(_, _, _, _, _, _, _)
\* the two nested loops from (orig.index, rev.index) = (i, j) on; mo and mr
\* are matchedOriginal and matchedRevised
DetectFrom(originalParas, revisedParas, i, j, moves, mo, mr) ==
  IF i >= Len(originalParas) THEN moves
  ELSE IF j >= Len(revisedParas)
  THEN DetectFrom(originalParas, revisedParas, i + 1, 0, moves, mo, mr)
  ELSE IF IsMove(originalParas, revisedParas, i, j, mo, mr)
  THEN DetectFrom(originalParas, revisedParas, i, j + 1,
                  Append(moves, NewMove(originalParas, i, j)),
                  mo \cup {i}, mr \cup {j})
  ELSE DetectFrom(originalParas, revisedParas, i, j + 1, moves, mo, mr)

detectMovedParagraphs(originalParas, revisedParas) ==
  DetectFrom(originalParas, revisedParas, 0, 0, <<>>, {}, {})

(***************************************************************************)
(* DiffEngine.paragraphSimilarity                                          *)
(***************************************************************************)
RECURSIVE SplitSpaces(_, _, _)
\* s.split(/\s+/): the pieces between the whitespace runs, empty pieces at
\* the ends included
SplitSpaces(s, p, start) ==
  IF p > Len(s) THEN <<SubSeq(s, start, Len(s))>>
  ELSE IF IsSpace(s[p])
       THEN LET e == SpaceRunEnd(s, p)
            IN  <<SubSeq(s, start, p - 1)>> \o SplitSpaces(s, e + 1, e + 1)
       ELSE SplitSpaces(s, p + 1, start)

WordSet(para) ==
  LET ws == SplitSpaces(toLowerCase(para), 1, 1)
  IN  {ws[i] : i \in 1..Len(ws)}

\* The similarity is the fraction num / den (0 / 1 when the union is empty).
paragraphSimilarity(para1, para2) ==
  LET words1       == WordSet(para1)
      words2       == WordSet(para2)
      intersection == Cardinality(words1 \cap words2)
      union        == Cardinality(words1) + Cardinality(words2) - intersection
  IN  IF union > 0 THEN [num |-> intersection, den |-> union]
      ELSE [num |-> 0, den |-> 1]

NoSimilarity == [num |-> 0, den |-> 1]

\* AboveThreshold with >= in place of >
AtOrAboveThreshold(sim) == 10 * sim.num >= 3 * sim.den

\* similarity > 0.3: the quotient of two small integers exceeds the double
\* 0.3 exactly when the fraction exceeds 3/10
AboveThreshold(sim) == 10 * sim.num > 3 * sim.den

\* SimGreater with >= in place of >
SimGreaterOrEqual(sim1, sim2) == sim1.num * sim2.den >= sim2.num * sim1.den

\* sim1 > sim2
SimGreater(sim1, sim2) == sim1.num * sim2.den > sim2.num * sim1.den

(***************************************************************************)
(* DiffEngine.alignParagraphs                                              *)
(***************************************************************************)
\* movedFromIndices built from the destinations
movedFromIndicesByTo(moves) == {moves[n].toIndex : n \in 1..Len(moves)}

movedFromIndices(moves) == {moves[n].fromIndex : n \in 1..Len(moves)}

movedToIndices(moves) == {moves[n].toIndex : n \in 1..Len(moves)}

\* moveMap.get(j): the Map constructor keeps the last entry of a key
moveMapGet(moves, j) ==
  moves[SetMax({n \in 1..Len(moves) : moves[n].toIndex = j})]

Pair(type, originalParas, revisedParas, i, j) ==
  [type |-> type, original |-> originalParas[i + 1],
   revised |-> revisedParas[j + 1], originalIndex |-> i, revisedIndex |-> j,
   movedFrom |-> Undefined, movedTo |-> Undefined]

Deleted(originalParas, i) ==
  [type |-> "deleted", original |-> originalParas[i + 1], revised |-> <<>>,
   originalIndex |-> i, revisedIndex |-> Null,
   movedFrom |-> Undefined, movedTo |-> Undefined]

Added(revisedParas, j) ==
  [type |-> "added", original |-> <<>>, revised |-> revisedParas[j + 1],
   originalIndex |-> Null, revisedIndex |-> j,
   movedFrom |-> Undefined, movedTo |-> Undefined]

\* Moved with the two indices exchanged
MovedIndicesSwapped(revisedParas, move, j) ==
  [type |-> "moved", original |-> move.text, revised |-> revisedParas[j + 1],
   originalIndex |-> j, revisedIndex |-> move.fromIndex,
   movedFrom |-> move.fromIndex, movedTo |-> j]

Moved(revisedParas, move, j) ==
  [type |-> "moved", original |-> move.text, revised |-> revisedParas[j + 1],
   originalIndex |-> move.fromIndex, revisedIndex |-> j,
   movedFrom |-> move.fromIndex, movedTo |-> j]

\* the branch an iteration of the while loop takes at cursors (i, j)
AlignBranch(originalParas, revisedParas, moves, i, j) ==
  LET NO == Len(originalParas)
      NR == Len(revisedParas)
  IN  IF j < NR /\ j \in movedToIndices(moves) THEN "moved"
      ELSE IF i < NO /\ i \in movedFromIndices(moves) THEN "skip"
      ELSE IF i < NO /\ j < NR
      THEN IF fingerprint(originalParas[i + 1]) = fingerprint(revisedParas[j + 1])
           THEN "unchanged"
           ELSE IF AboveThreshold(paragraphSimilarity(originalParas[i + 1],
                                                      revisedParas[j + 1]))
           THEN "modified"
           ELSE LET nextOrigSim ==
                      IF i + 1 < NO
                      THEN paragraphSimilarity(originalParas[i + 2],
                                               revisedParas[j + 1])
                      ELSE NoSimilarity
                    nextRevSim ==
                      IF j + 1 < NR
                      THEN paragraphSimilarity(originalParas[i + 1],
                                               revisedParas[j + 2])
                      ELSE NoSimilarity
                IN  IF SimGreater(nextOrigSim, nextRevSim)
                       /\ AboveThreshold(nextOrigSim)
                    THEN "lookahead-deleted"
                    ELSE IF AboveThreshold(nextRevSim) THEN "lookahead-added"
                    ELSE "forced-modified"
      ELSE IF i < NO THEN "tail-deleted"
      ELSE "tail-added"

\* what the branch b of an iteration at cursors (i, j) does: the alignments
\* pushed and the new cursors
AlignEffect(b, originalParas, revisedParas, moves, i, j) ==
      CASE b = "moved" ->
             [push |-> <<Moved(revisedParas, moveMapGet(moves, j), j)>>,
              origIdx |-> i, revIdx |-> j + 1]
        [] b = "skip" ->
             [push |-> <<>>, origIdx |-> i + 1, revIdx |-> j]
        [] b = "unchanged" ->
             [push |-> <<Pair("unchanged", originalParas, revisedParas, i, j)>>,
              origIdx |-> i + 1, revIdx |-> j + 1]
        [] b \in {"modified", "forced-modified"} ->
             [push |-> <<Pair("modified", originalParas, revisedParas, i, j)>>,
              origIdx |-> i + 1, revIdx |-> j + 1]
        [] b = "lookahead-deleted" ->
             [push |-> <<Deleted(originalParas, i)>>,
              origIdx |-> i + 1, revIdx |-> j]
        [] b = "lookahead-added" ->
             [push |-> <<Added(revisedParas, j)>>,
              origIdx |-> i, revIdx |-> j + 1]
        [] b = "tail-deleted" ->
             [push |-> IF i \notin movedFromIndices(moves)
                       THEN <<Deleted(originalParas, i)>> ELSE <<>>,
              origIdx |-> i + 1, revIdx |-> j]
        [] b = "tail-added" ->
             [push |-> IF j \notin movedToIndices(moves)
                       THEN <<Added(revisedParas, j)>> ELSE <<>>,
              origIdx |-> i, revIdx |-> j + 1]

\* one iteration of the while loop (lines 171-283) at cursors (i, j)
AlignIteration(originalParas, revisedParas, moves, i, j) ==
  AlignEffect(AlignBranch(originalParas, revisedParas, moves, i, j),
              originalParas, revisedParas, moves, i, j)

(***************************************************************************)
(* DiffEngine.compare (lines 323-354) and DiffEngine.calculateStats        *)
(***************************************************************************)
\* the operations of one alignment (lines 336-346); Undefined when myersDiff
\* throws
AlignmentOperations(alignment) ==
  IF alignment.type \in {"modified", "moved", "unchanged"}
  THEN myersDiff(tokenizeWords(alignment.original),
                 tokenizeWords(alignment.revised))
  ELSE IF alignment.type = "added"
  THEN LET newTokens == tokenizeWords(alignment.revised)
       IN  [n \in 1..Len(newTokens) |-> [type |-> "insert", word |-> newTokens[n]]]
  ELSE LET oldTokens == tokenizeWords(alignment.original)
       IN  [n \in 1..Len(oldTokens) |-> [type |-> "delete", word |-> oldTokens[n]]]

\* the result object of one alignment (lines 327-346)
ParagraphResult(alignment) ==
  [type          |-> alignment.type,
   originalIndex |-> alignment.originalIndex,
   revisedIndex  |-> alignment.revisedIndex,
   operations    |-> AlignmentOperations(alignment),
   movedFrom     |-> OrNull(alignment.movedFrom),
   movedTo       |-> OrNull(alignment.movedTo)]

\* the three branches of lines 370-372
IsInsert(op) == op.type = "insert"

IsDelete(op) == op.type = "delete" /\ ~IsInsert(op)

IsOther(op) == ~IsInsert(op) /\ ~IsDelete(op)

\* the operations of all the paragraphs, in the order of the two loops
AllOperations(paragraphs) ==
  Concat([n \in 1..Len(paragraphs) |-> paragraphs[n].operations])

\* the final values of the three counters of line 363
CountInserts(ops) == Cardinality({n \in 1..Len(ops) : IsInsert(ops[n])})

CountDeletes(ops) == Cardinality({n \in 1..Len(ops) : IsDelete(ops[n])})

CountOthers(ops) == Cardinality({n \in 1..Len(ops) : IsOther(ops[n])})

\* CountsAsMoved looking at movedFrom alone
CountsAsMovedFromOnly(para) == para.movedFrom # Null

\* line 367
CountsAsMoved(para) == para.movedFrom # Null \/ para.movedTo # Null

calculateStats(paragraphs) ==
  LET wordsAdded      == CountInserts(AllOperations(paragraphs))
      wordsDeleted    == CountDeletes(AllOperations(paragraphs))
      wordsUnchanged  == CountOthers(AllOperations(paragraphs))
      paragraphsMoved ==
        Cardinality({n \in 1..Len(paragraphs) : CountsAsMoved(paragraphs[n])})
  IN  [wordsOriginal   |-> wordsDeleted + wordsUnchanged,
       wordsRevised    |-> wordsAdded + wordsUnchanged,
       wordsAdded      |-> wordsAdded,
       wordsDeleted    |-> wordsDeleted,
       wordsUnchanged  |-> wordsUnchanged,
       paragraphsMoved |-> paragraphsMoved]

RECURSIVE AlignFrom(_, _, _, _, _, _)
RECURSIVE AlignNext(_, _, _, _, _)
\* the while loop of alignParagraphs from cursors (i, j) on
AlignFrom(originalParas, revisedParas, moves, i, j, alignments) ==
  IF i < Len(originalParas) \/ j < Len(revisedParas)
  THEN AlignNext(originalParas, revisedParas, moves, alignments,
                 AlignIteration(originalParas, revisedParas, moves, i, j))
  ELSE alignments

\* the rest of the loop after the iteration it
AlignNext(originalParas, revisedParas, moves, alignments, it) ==
  AlignFrom(originalParas, revisedParas, moves, it.origIdx, it.revIdx,
            alignments \o it.push)

alignParagraphs(originalParas, revisedParas, moves) ==
  AlignFrom(originalParas, revisedParas, moves, 0, 0, <<>>)

\* the paragraphResults of lines 324-349
ParagraphResults(alignments) ==
  [n \in 1..Len(alignments) |-> ParagraphResult(alignments[n])]

\* compare(originalText, revisedText) as one call
compare(original, revised) ==
  LET originalParas == splitParagraphs(original)
      revisedParas  == splitParagraphs(revised)
      moves         == detectMovedParagraphs(originalParas, revisedParas)
      alignments    == alignParagraphs(originalParas, revisedParas, moves)
  IN  [paragraphs |-> ParagraphResults(alignments),
       stats      |-> calculateStats(ParagraphResults(alignments))]

(***************************************************************************)
(* Inputs.                                                                 *)
(***************************************************************************)
\* the largest number of paragraphs of an input text built from a catalogue
MaxParas == 3

\* the largest length of an input text given character by character
MaxTextLen == 4

\* the largest length of a token sequence given to myersDiff directly
MaxTokens == 5

SeqsUpTo(S, n) == UNION {[1..m -> S] : m \in 0..n}

RECURSIVE JoinWith(_, _)
\* the strings of ss with sep between them
JoinWith(ss, sep) ==
  IF ss = <<>> THEN <<>>
  ELSE IF Len(ss) = 1 THEN ss[1]
  ELSE ss[1] \o sep \o JoinWith(Tail(ss), sep)

\* the texts of at most MaxParas paragraphs of a catalogue, separated by one
\* blank line
TextsOf(catalogue) ==
  {JoinWith(ps, <<10, 10>>) : ps \in SeqsUpTo(catalogue, MaxParas)}

\* "a b", "a  B" (the same words in another case and with another
\* separator), "a c" (one word of two changed) and "d"
Catalogue ==
  {<<97, 32, 98>>, <<97, 32, 32, 66>>, <<97, 32, 99>>, <<100>>}

\* "a b c d e f" and "a b c g h i j" share 3 of their 10 words; "a b" shares
\* 2 of 6 with the first (above 0.3) and 2 of 7 with the second (below)
BoundaryCatalogue ==
  {<<97, 32, 98, 32, 99, 32, 100, 32, 101, 32, 102>>,
   <<97, 32, 98, 32, 99, 32, 103, 32, 104, 32, 105, 32, 106>>,
   <<97, 32, 98>>}

\* every text of at most MaxTextLen characters among "a", " " and "\n", and
\* three texts with other whitespace: "\r\n\r\n", "a\r\n\r\na" and "\t"
RawTexts ==
  SeqsUpTo({97, 32, 10}, MaxTextLen)
    \cup {<<13, 10, 13, 10>>, <<97, 13, 10, 13, 10, 97>>, <<9>>}

\* the token sequences of the paragraphs of at most MaxTokens words among
\* "a" and "b"
TokenInputs ==
  {tokenizeWords(JoinWith(ws, <<32>>)) :
     ws \in SeqsUpTo({<<97>>, <<98>>}, MaxTokens)}

\* the largest length of a text given to fingerprint directly
MaxFingerprintLen == 5

\* the texts of at most MaxFingerprintLen characters among "a", "A", ","
\* and " ", and those among "a" and " " alone
FingerprintTexts == SeqsUpTo({97, 65, 44, 32}, MaxFingerprintLen)

PlainTexts == SeqsUpTo({97, 32}, MaxFingerprintLen)

\* the largest number of paragraphs of an input text built from
\* LookaheadCatalogue
MaxLookaheadParas == 2

\* "a b", "c d", "c e", "a f" and "c d e": "a b" and "c d" share no word;
\* "c e" shares 1 word of 3 with "c d", as "a f" does with "a b"; "c d e"
\* shares 2 of 3 with "c d" and with "c e"
LookaheadCatalogue ==
  {<<97, 32, 98>>, <<99, 32, 100>>, <<99, 32, 101>>, <<97, 32, 102>>,
   <<99, 32, 100, 32, 101>>}

LookaheadTexts ==
  {JoinWith(ps, <<10, 10>>) :
     ps \in SeqsUpTo(LookaheadCatalogue, MaxLookaheadParas)}

\* the largest number of input events on the text areas
MaxInputs == 3

\* the largest number of calls of openModal and closeModal
MaxClicks == 4

\* the values an input event gives a text area: "", "a b", "a b\n\nd" and
\* "d\n\na b"
AppTexts ==
  {<<>>, <<97, 32, 98>>, <<97, 32, 98, 10, 10, 100>>,
   <<100, 10, 10, 97, 32, 98>>}

(***************************************************************************)
(* State.                                                                  *)
(***************************************************************************)
VARIABLES
  originalText, revisedText,    \* the arguments of compare
  pc,                           \* the position in compare
  originalParas, revisedParas,  \* the paragraphs of the two texts
  moves,                        \* the result of detectMovedParagraphs
  alignments, origIdx, revIdx,  \* the locals of alignParagraphs
  diffResult,                   \* the value compare returns
  oldTokens, newTokens,         \* the arguments of a direct call of myersDiff
  my,                           \* the run of that call
  fp,                           \* the results of direct calls of fingerprint
  elements,                     \* the values of the two text areas
  state,                        \* App.state
  timers,                       \* the pending timers of the browser
  elapsed,                      \* the time since the last input event, in ms
  inputs,                       \* the number of input events so far
  clicks,                       \* the number of calls of openModal and closeModal so far
  lastOpened                    \* the target of the most recent openModal

vars == <<originalText, revisedText, pc, originalParas, revisedParas, moves,
          alignments, origIdx, revIdx, diffResult, oldTokens, newTokens, my, fp,
          elements, state, timers, elapsed, inputs, clicks, lastOpened>>

modalVars == <<clicks, lastOpened>>

appVars == <<elements, state, timers, elapsed, inputs, modalVars>>

compareVars == <<originalText, revisedText, pc, originalParas, revisedParas,
                 moves, alignments, origIdx, revIdx, diffResult>>

\* debounceDelay: 300
debounceDelay == 300

\* the delay of the timer closeModal sets
closeDelay == 300

\* App.state after construction and the page after DOMContentLoaded: both
\* text areas empty, the modal overlay without class and the modal body
\* without child, no timer. A nullable object or string is a sequence of at
\* most one element, null the empty one; modalOverlay is the class list of
\* the overlay and modalBody the set of the children of the modal body.
AppStart ==
  /\ elements = [originalText |-> <<>>, revisedText |-> <<>>,
                 modalOverlay |-> {}, modalBody |-> {}]
  /\ state = [diffResult |-> <<>>, debounceTimer |-> Null,
              activeModal |-> <<>>]
  /\ clicks = 0
  /\ lastOpened = <<>>
  /\ timers = {}
  /\ elapsed = debounceDelay
  /\ inputs = 0

NoResult == [paragraphs |-> <<>>, stats |-> calculateStats(<<>>)]

MyersIdle == [MyersStart EXCEPT !.phase = "idle"]

InitCompare(texts) ==
  /\ originalText \in texts
  /\ revisedText \in texts
  /\ pc = "split"
  /\ originalParas = <<>>
  /\ revisedParas = <<>>
  /\ moves = <<>>
  /\ alignments = <<>>
  /\ origIdx = 0
  /\ revIdx = 0
  /\ diffResult = NoResult
  /\ oldTokens = <<>>
  /\ newTokens = <<>>
  /\ my = MyersIdle
  /\ fp = <<>>
  /\ AppStart

Init == InitCompare(TextsOf(Catalogue))

InitBoundary == InitCompare(TextsOf(BoundaryCatalogue))

InitRaw == InitCompare(RawTexts)

InitLookahead == InitCompare(LookaheadTexts)

InitMyers ==
  /\ oldTokens \in TokenInputs
  /\ newTokens \in TokenInputs
  /\ my = [MyersStart EXCEPT !.phase = "call"]
  /\ pc = "myers"
  /\ originalText = <<>>
  /\ revisedText = <<>>
  /\ originalParas = <<>>
  /\ revisedParas = <<>>
  /\ moves = <<>>
  /\ alignments = <<>>
  /\ origIdx = 0
  /\ revIdx = 0
  /\ diffResult = NoResult
  /\ fp = <<>>
  /\ AppStart

(***************************************************************************)
(* compare, step by step.                                                  *)
(***************************************************************************)
\* lines 314-315
SplitParagraphs ==
  /\ pc = "split"
  /\ originalParas' = splitParagraphs(originalText)
  /\ revisedParas' = splitParagraphs(revisedText)
  /\ pc' = "detect"
  /\ UNCHANGED <<originalText, revisedText, moves, alignments, origIdx,
                 revIdx, diffResult, oldTokens, newTokens, my, fp, appVars>>

\* line 318, and the entry of alignParagraphs (lines 163-169)
DetectMoves ==
  /\ pc = "detect"
  /\ moves' = detectMovedParagraphs(originalParas, revisedParas)
  /\ alignments' = <<>>
  /\ origIdx' = 0
  /\ revIdx' = 0
  /\ pc' = "align"
  /\ UNCHANGED <<originalText, revisedText, originalParas, revisedParas,
                 diffResult, oldTokens, newTokens, my, fp, appVars>>

\* AlignMore with the loop going on only while both cursors are inside
AlignMoreBoth == origIdx < Len(originalParas) /\ revIdx < Len(revisedParas)

\* the condition of the while loop of alignParagraphs
AlignMore == origIdx < Len(originalParas) \/ revIdx < Len(revisedParas)

\* one iteration of the while loop of alignParagraphs
AlignStep ==
  /\ pc = "align"
  /\ AlignMore
  /\ LET it == AlignIteration(originalParas, revisedParas, moves, origIdx, revIdx)
     IN  /\ alignments' = alignments \o it.push
         /\ origIdx' = it.origIdx
         /\ revIdx' = it.revIdx
  /\ UNCHANGED <<originalText, revisedText, pc, originalParas, revisedParas,
                 moves, diffResult, oldTokens, newTokens, my, fp, appVars>>

\* the return of alignParagraphs and the rest of compare (lines 323-354)
WordDiff ==
  /\ pc = "align"
  /\ ~AlignMore
  /\ LET paragraphResults ==
           [n \in 1..Len(alignments) |-> ParagraphResult(alignments[n])]
         threw ==
           \E n \in 1..Len(alignments) :
             alignments[n].type \in {"modified", "moved", "unchanged"}
             /\ Len(tokenizeWords(alignments[n].original))
                + Len(tokenizeWords(alignments[n].revised)) > 0
             /\ MyersRun(tokenizeWords(alignments[n].original),
                         tokenizeWords(alignments[n].revised),
                         MyersStart).phase = "threw"
     IN  IF threw
         THEN pc' = "threw" /\ UNCHANGED diffResult
         ELSE /\ pc' = "done"
              /\ diffResult' = [paragraphs |-> paragraphResults,
                                stats |-> calculateStats(paragraphResults)]
  /\ UNCHANGED <<originalText, revisedText, originalParas, revisedParas,
                 moves, alignments, origIdx, revIdx, oldTokens, newTokens, my, fp, appVars>>

Next == SplitParagraphs \/ DetectMoves \/ AlignStep \/ WordDiff

Spec == Init /\ [][Next]_vars

SpecBoundary == InitBoundary /\ [][Next]_vars

SpecRaw == InitRaw /\ [][Next]_vars

SpecLookahead == InitLookahead /\ [][Next]_vars

(***************************************************************************)
(* myersDiff called directly, step by step.                                *)
(***************************************************************************)
\* lines 13-21: the early return on two empty sequences, or the start
MyersCall ==
  /\ my.phase = "call"
  /\ my' = IF Len(oldTokens) + Len(newTokens) = 0
           THEN [MyersStart EXCEPT !.phase = "done"]
           ELSE MyersStart
  /\ UNCHANGED <<compareVars, oldTokens, newTokens, fp, appVars>>

MyersForward ==
  /\ my.phase = "forward"
  /\ my' = MyersStep(oldTokens, newTokens, my)
  /\ UNCHANGED <<compareVars, oldTokens, newTokens, fp, appVars>>

MyersBacktrack ==
  /\ my.phase = "backtrack"
  /\ my' = MyersStep(oldTokens, newTokens, my)
  /\ UNCHANGED <<compareVars, oldTokens, newTokens, fp, appVars>>

NextMyers == MyersCall \/ MyersForward \/ MyersBacktrack

SpecMyers == InitMyers /\ [][NextMyers]_vars

(***************************************************************************)
(* Tokenizer.fingerprint called directly, on originalText and then on      *)
(* revisedText.                                                            *)
(***************************************************************************)
InitFingerprint ==
  /\ originalText \in FingerprintTexts
  /\ revisedText \in PlainTexts
  /\ fp = <<>>
  /\ AppStart
  /\ pc = "fingerprint"
  /\ originalParas = <<>>
  /\ revisedParas = <<>>
  /\ moves = <<>>
  /\ alignments = <<>>
  /\ origIdx = 0
  /\ revIdx = 0
  /\ diffResult = NoResult
  /\ oldTokens = <<>>
  /\ newTokens = <<>>
  /\ my = MyersIdle

\* one call of fingerprint: the first on originalText, the second on
\* revisedText
FingerprintCall ==
  /\ pc = "fingerprint"
  /\ Len(fp) < 2
  /\ fp' = Append(fp, fingerprint(IF fp = <<>> THEN originalText
                                                ELSE revisedText))
  /\ UNCHANGED <<compareVars, oldTokens, newTokens, my, appVars>>

NextFingerprint == FingerprintCall

SpecFingerprint == InitFingerprint /\ [][NextFingerprint]_vars

(***************************************************************************)
(* The App controller: input events on the two text areas, the debounce    *)
(* timer and runComparison. Time advances in steps of 100 ms; a timer of   *)
(* the browser is a record of its id and of the time left before it is     *)
(* due, and it may run late but not early.                                 *)
(***************************************************************************)
InitApp ==
  /\ AppStart
  /\ originalText = <<>>
  /\ revisedText = <<>>
  /\ pc = "app"
  /\ originalParas = <<>>
  /\ revisedParas = <<>>
  /\ moves = <<>>
  /\ alignments = <<>>
  /\ origIdx = 0
  /\ revIdx = 0
  /\ diffResult = NoResult
  /\ oldTokens = <<>>
  /\ newTokens = <<>>
  /\ my = MyersIdle
  /\ fp = <<>>

\* the timers left pending although debouncedCompare ran: without the
\* clearTimeout
PendingNotCleared(pending, debounceTimer) == pending

\* lines 131-133: if (this.state.debounceTimer) clearTimeout(...)
PendingAfterClear(pending, debounceTimer) ==
  IF debounceTimer # Null /\ debounceTimer # 0
  THEN {t \in pending : t.id # debounceTimer}
  ELSE pending

\* the value runComparison stores in state.diffResult (lines 167-182)
RunComparisonResult(original, revised) ==
  IF trim(original) = <<>> \/ trim(revised) = <<>>
  THEN <<>>
  ELSE <<compare(original, revised)>>

\* an input event on text area area that leaves it with value: the handler
\* of lines 74-82 with debouncedCompare (lines 130-138); setTimeout returns
\* a new positive id. updateWordCounts changes the page only.
InputEvent(area, value) ==
  /\ pc = "app"
  /\ inputs < MaxInputs
  /\ elements' = [elements EXCEPT ![area] = value]
  /\ timers' = PendingAfterClear(timers, state.debounceTimer)
                 \cup {[id |-> inputs + 1, remaining |-> debounceDelay]}
  /\ state' = [state EXCEPT !.debounceTimer = inputs + 1]
  /\ elapsed' = 0
  /\ inputs' = inputs + 1
  /\ UNCHANGED <<compareVars, oldTokens, newTokens, my, fp, modalVars>>

\* 100 ms pass; the time since the last input event is counted up to
\* debounceDelay
Tick ==
  /\ pc = "app"
  /\ elapsed < debounceDelay \/ \E t \in timers : t.remaining > 0
  /\ timers' = {[t EXCEPT !.remaining =
                    IF t.remaining > 100 THEN t.remaining - 100 ELSE 0] :
                  t \in timers}
  /\ elapsed' = IF elapsed + 100 < debounceDelay THEN elapsed + 100
                 ELSE debounceDelay
  /\ UNCHANGED <<compareVars, oldTokens, newTokens, my, fp, elements, state,
                 inputs, modalVars>>

\* the event loop takes a due timer off the pending ones to run its callback
TimerDue ==
  /\ pc = "app"
  /\ \E t \in timers :
       /\ t.remaining = 0
       /\ timers' = timers \ {t}

\* a due timer runs its callback, runComparison (lines 135-137, 166-194);
\* the rendering that follows the assignment of state.diffResult changes
\* the page only
TimerFires ==
  /\ TimerDue
  /\ state' = [state EXCEPT !.diffResult =
                  RunComparisonResult(elements.originalText,
                                      elements.revisedText)]
  /\ UNCHANGED <<compareVars, oldTokens, newTokens, my, fp, elements,
                 elapsed, inputs, modalVars>>

NextApp ==
  \/ \E area \in {"originalText", "revisedText"}, value \in AppTexts :
       InputEvent(area, value)
  \/ Tick
  \/ TimerFires

\* time passes, and the event loop of the browser runs the timers that are
\* due: a step that takes a due timer off is a TimerFires step
SpecApp ==
  InitApp /\ [][NextApp]_vars /\ WF_vars(Tick) /\ WF_timers(TimerDue)

(***************************************************************************)
(* The maximize modal of the App controller: openModal, closeModal and the *)
(* timer closeModal sets. The page is idle: no comparison timer is         *)
(* pending, so every pending timer is one of closeModal. The timer         *)
(* openModal sets to focus the text area changes the focus only and is     *)
(* left out.                                                               *)
(***************************************************************************)
\* the data-target values of the maximize buttons (the keys of titles,
\* lines 252-256)
ModalTargets == {"original", "revised", "comparison"}

\* the page before the modal is used: as loaded, or after two input events
\* and the comparison of the two texts they left
InitModal ==
  /\ \/ AppStart
     \/ /\ \E original, revised \in AppTexts :
             /\ elements = [originalText |-> original, revisedText |-> revised,
                            modalOverlay |-> {}, modalBody |-> {}]
             /\ state = [diffResult |-> RunComparisonResult(original, revised),
                         debounceTimer |-> 2, activeModal |-> <<>>]
        /\ timers = {}
        /\ elapsed = debounceDelay
        /\ inputs = 2
        /\ clicks = 0
        /\ lastOpened = <<>>
  /\ originalText = <<>>
  /\ revisedText = <<>>
  /\ pc = "app"
  /\ originalParas = <<>>
  /\ revisedParas = <<>>
  /\ moves = <<>>
  /\ alignments = <<>>
  /\ origIdx = 0
  /\ revIdx = 0
  /\ diffResult = NoResult
  /\ oldTokens = <<>>
  /\ newTokens = <<>>
  /\ my = MyersIdle
  /\ fp = <<>>

\* the child openModal gives the modal body (lines 279, 302)
ModalChild(target) ==
  IF target = "comparison" THEN "comparison-output" ELSE "textarea"

\* openModal(target) throws: Renderer.renderDiff reads
\* diffResult.paragraphs of a null diffResult (line 305, renderer.js:23)
OpenModalThrows(target) == target = "comparison" /\ state.diffResult = <<>>

\* a click on a maximize button: openModal(target) (lines 248-329). When
\* renderDiff throws, activeModal is set and the body cleared, and the
\* overlay keeps its classes.
OpenModal(target) ==
  /\ pc = "app"
  /\ clicks < MaxClicks
  /\ state' = [state EXCEPT !.activeModal = <<target>>]
  /\ elements' =
       IF OpenModalThrows(target)
       THEN [elements EXCEPT !.modalBody = {}]
       ELSE [elements EXCEPT
               !.modalBody = {ModalChild(target)},
               !.modalOverlay = (@ \ {"closing"}) \cup {"active"}]
  /\ clicks' = clicks + 1
  /\ lastOpened' = <<target>>
  /\ UNCHANGED <<compareVars, oldTokens, newTokens, my, fp, timers, elapsed,
                 inputs>>

\* a click on the close button or on the overlay, or the Escape key:
\* closeModal (lines 334-348); setTimeout returns a new positive id
CloseModal ==
  /\ pc = "app"
  /\ clicks < MaxClicks
  /\ IF state.activeModal = <<>>
     THEN UNCHANGED <<elements, timers>>
     ELSE /\ elements' = [elements EXCEPT
                            !.modalOverlay = (@ \cup {"closing"}) \ {"active"}]
          /\ timers' = timers \cup {[id |-> inputs + clicks + 1,
                                      remaining |-> closeDelay]}
  /\ clicks' = clicks + 1
  /\ UNCHANGED <<compareVars, oldTokens, newTokens, my, fp, state, elapsed,
                 inputs, lastOpened>>

\* a due timer of closeModal runs its callback (lines 340-347)
CloseTimerFires ==
  /\ TimerDue
  /\ elements' = [elements EXCEPT !.modalOverlay = @ \ {"closing"},
                                  !.modalBody = {}]
  /\ state' = [state EXCEPT !.activeModal = <<>>]
  /\ UNCHANGED <<compareVars, oldTokens, newTokens, my, fp, elapsed, inputs,
                 modalVars>>

NextModal ==
  \/ \E target \in ModalTargets : OpenModal(target)
  \/ CloseModal
  \/ Tick
  \/ CloseTimerFires

SpecModal == InitModal /\ [][NextModal]_vars

(***************************************************************************)
(* Properties of myersDiff (specification SpecMyers).                      *)
(***************************************************************************)
\* the texts of a token sequence
TokenTexts(tokens) == [n \in 1..Len(tokens) |-> tokens[n].text]

\* the texts carried by the operations of the given types, in emission order
OpTexts(operations, types) ==
  LET sel == SelectSeq(operations, LAMBDA op : op.type \in types)
  IN  [n \in 1..Len(sel) |-> sel[n].word.text]

OpCount(operations, types) ==
  Cardinality({n \in 1..Len(operations) : operations[n].type \in types})

RECURSIVE LCS(_, _)
\* the length of a longest common subsequence of two sequences
LCS(a, b) ==
  IF a = <<>> \/ b = <<>> THEN 0
  ELSE IF Head(a) = Head(b) THEN 1 + LCS(Tail(a), Tail(b))
  ELSE LET l == LCS(Tail(a), b)
           r == LCS(a, Tail(b))
       IN  IF l > r THEN l ELSE r

\* C1: myersDiff returns, and the texts of its equal and delete operations,
\* in emission order, are the texts of old, those of its equal and insert
\* operations the texts of new.
C1_Reconstruct ==
  /\ my.phase # "threw"
  /\ my.phase = "done" =>
       /\ OpTexts(my.operations, {"equal", "delete"}) = TokenTexts(oldTokens)
       /\ OpTexts(my.operations, {"equal", "insert"}) = TokenTexts(newTokens)

\* a finished run whose operations hold an equal, an insert and a delete
C1_Witness ==
  /\ my.phase = "done"
  /\ OpCount(my.operations, {"equal"}) > 0
  /\ OpCount(my.operations, {"insert"}) > 0
  /\ OpCount(my.operations, {"delete"}) > 0

\* C2: the number of insert and delete operations myersDiff returns is
\* N + M - 2 * LCS(old, new), the least possible.
C2_Minimal ==
  my.phase = "done" =>
    OpCount(my.operations, {"insert", "delete"})
      = Len(oldTokens) + Len(newTokens)
        - 2 * LCS(TokenTexts(oldTokens), TokenTexts(newTokens))

\* a finished run on two sequences that share some tokens, but not all, and
\* whose common subsequence is shorter than both
C2_Witness ==
  /\ my.phase = "done"
  /\ LCS(TokenTexts(oldTokens), TokenTexts(newTokens)) >= 2
  /\ LCS(TokenTexts(oldTokens), TokenTexts(newTokens)) < Len(oldTokens)
  /\ LCS(TokenTexts(oldTokens), TokenTexts(newTokens)) < Len(newTokens)
  /\ OpCount(my.operations, {"insert", "delete"}) >= 4

\* the rule of C16 as stated: take the reach of diagonal k + 1 when k = -D
\* or when the reach of diagonal k - 1 is not greater
NotGreaterFromAbove(V, D, k) == k = -D \/ VGet(V, k - 1) <= VGet(V, k + 1)

\* the rule of C16 amended, by its other branch: take the reach of diagonal
\* k - 1, plus one, when k = D, or when k # -D and the reach of diagonal
\* k - 1 is not less
FromBelow(V, D, k) == k # -D /\ (k = D \/ VGet(V, k - 1) >= VGet(V, k + 1))

\* the starting x of diagonal k
StartX(fromAbove, V, k) ==
  IF fromAbove THEN VGet(V, k + 1) ELSE VGet(V, k - 1) + 1

\* the forward iteration ends where the slide from the starting x ends
ForwardFrom(fromAbove) ==
  my'.x = Slide(oldTokens, newTokens, StartX(fromAbove, my.V, my.k),
                StartX(fromAbove, my.V, my.k) - my.k).x

\* the point the next iteration of backtrack starts from
BacktrackX == IF my.d = Len(my.trace) - 1 THEN Len(oldTokens) ELSE my.x

BacktrackY == IF my.d = Len(my.trace) - 1 THEN Len(newTokens) ELSE my.y

\* the snapshot and the diagonal of the next iteration of backtrack
BacktrackV == my.trace[my.d + 1]

BacktrackK == BacktrackX - BacktrackY

\* the iteration of backtrack ends at the reach of the diagonal the rule
\* names
BacktrackTo(fromAbove) ==
  LET prevK == IF fromAbove THEN BacktrackK + 1 ELSE BacktrackK - 1
  IN  /\ my'.x = VGet(BacktrackV, prevK)
      /\ my'.y = VGet(BacktrackV, prevK) - prevK

\* C16 as stated: the forward phase takes the starting x of diagonal k from
\* diagonal k + 1 when k = -D or when the reach of diagonal k - 1 is not
\* greater than that of diagonal k + 1, the two being equal included, and
\* from diagonal k - 1, plus one, otherwise; backtrack applies the same rule.
C16_TieFromAbove ==
  [][/\ my.phase = "forward" =>
          ForwardFrom(NotGreaterFromAbove(my.V, my.D, my.k))
     /\ (my.phase = "backtrack" /\ my.d > 0) =>
          BacktrackTo(NotGreaterFromAbove(BacktrackV, my.d, BacktrackK))]_vars

\* C16 amended: the forward phase takes the starting x of diagonal k from
\* diagonal k - 1, plus one, when k = D, or when k # -D and the reach of
\* diagonal k - 1 is greater than or equal to that of diagonal k + 1 (a
\* reach that was never set counts as 0), and from diagonal k + 1, as it
\* is, otherwise; backtrack applies the same rule.
C16_TieFromBelow ==
  [][/\ my.phase = "forward" =>
          ForwardFrom(~FromBelow(my.V, my.D, my.k))
     /\ (my.phase = "backtrack" /\ my.d > 0) =>
          BacktrackTo(~FromBelow(BacktrackV, my.d, BacktrackK))]_vars

\* the forward phase has just passed a diagonal strictly inside the round
\* whose two neighbours had the same reach, and went one past that reach
C16_Witness ==
  /\ my.phase = "forward"
  /\ my.k - 2 > -my.D
  /\ my.k <= my.D
  /\ VGet(my.V, my.k - 3) = VGet(my.V, my.k - 1)
  /\ VGet(my.V, my.k - 2) > VGet(my.V, my.k - 1)

\* the number of operations the step puts in front of the others
Unshifted == Len(my'.operations) - Len(my.operations)

\* the step of backtrack slides back along the diagonal, emitting equal
\* operations, and then emits one operation of the given type, in front of
\* all the others: an insert takes y back by one more than the slide, a
\* delete takes x back by one more
EmitsOne(type) ==
  /\ Unshifted >= 1
  /\ SubSeq(my'.operations, Unshifted + 1, Len(my'.operations)) = my.operations
  /\ my'.operations[1].type = type
  /\ \A n \in 2..Unshifted : my'.operations[n].type = "equal"
  /\ my'.x = BacktrackX - (Unshifted - 1) - (IF type = "delete" THEN 1 ELSE 0)
  /\ my'.y = BacktrackY - (Unshifted - 1) - (IF type = "insert" THEN 1 ELSE 0)

\* the frontier of the next iteration of backtrack came from diagonal k - 1
CameFromBelow == FromBelow(BacktrackV, my.d, BacktrackK)

\* C17 as stated: for each d > 0 the iteration of backtrack emits, after the
\* slide back, exactly one non-diagonal operation: an insert (y decreases by
\* 1) if the frontier came from diagonal k - 1, a delete (x decreases by 1)
\* if it came from diagonal k + 1.
C17_InsertFromBelow ==
  [][(my.phase = "backtrack" /\ my.d > 0) =>
       IF CameFromBelow THEN EmitsOne("insert") ELSE EmitsOne("delete")]_vars

\* C17 amended: for each d > 0 the iteration of backtrack emits, after the
\* slide back, exactly one non-diagonal operation: an insert (y decreases by
\* 1) if the frontier came from diagonal k + 1, a delete (x decreases by 1)
\* if it came from diagonal k - 1.
C17_InsertFromAbove ==
  [][(my.phase = "backtrack" /\ my.d > 0) =>
       IF CameFromBelow THEN EmitsOne("delete") ELSE EmitsOne("insert")]_vars

\* backtrack has slid back along a diagonal and emitted an insert, after an
\* iteration that emitted a delete
C17_Witness ==
  /\ my.phase = "backtrack"
  /\ Len(my.operations) >= 3
  /\ my.operations[1].type = "insert"
  /\ my.operations[2].type = "equal"
  /\ \E n \in 3..Len(my.operations) : my.operations[n].type = "delete"

\* the forward phase has just left its loop: backtrack has not yet run an
\* iteration
ForwardLeft == my.phase = "backtrack" /\ my.d = Len(my.trace) - 1

\* the operation carries a token of its sequence: the read that produced it
\* was inside 0 .. length - 1
ReadInside(op) ==
  IF op.type = "insert"
  THEN \E n \in 1..Len(newTokens) : op.word = newTokens[n]
  ELSE \E n \in 1..Len(oldTokens) : op.word = oldTokens[n]

\* C18: when N + M > 0 the forward phase leaves its loop through the break,
\* at some D <= N + M, with the frontier point exactly (N, M); backtrack
\* stays inside the edit graph, reads tokens inside the two sequences only
\* and finishes at exactly (0, 0).
C18_Frontier ==
  /\ my.phase # "threw"
  /\ ForwardLeft =>
       /\ my.D <= Len(oldTokens) + Len(newTokens)
       /\ my.x = Len(oldTokens)
       /\ my.y = Len(newTokens)
  /\ my.phase \in {"backtrack", "done"} =>
       /\ my.x \in 0..Len(oldTokens)
       /\ my.y \in 0..Len(newTokens)
       /\ \A n \in 1..Len(my.operations) : ReadInside(my.operations[n])
  /\ my.phase = "done" => my.x = 0 /\ my.y = 0

\* a run has finished at (0, 0) whose forward phase left its loop in its
\* last round, D = N + M, after it had set the reach of a diagonal above
\* diagonal M, that is at a point with y > M
C18_Witness ==
  /\ my.phase = "done"
  /\ my.x = 0
  /\ my.y = 0
  /\ Len(oldTokens) >= 2
  /\ Len(newTokens) >= 2
  /\ my.D = Len(oldTokens) + Len(newTokens)
  /\ \E k \in DOMAIN my.V : my.V[k] - k > Len(newTokens)

(***************************************************************************)
(* Properties of compare (specifications Spec, SpecBoundary, SpecRaw).     *)
(***************************************************************************)
\* the alignments are final: alignParagraphs has left its loop
Aligned == (pc = "align" /\ ~AlignMore) \/ pc = "done"

Paragraphs == diffResult.paragraphs

\* text + trailing separator of the operations of the given types, in
\* emission order
OpString(operations, types) ==
  LET sel == SelectSeq(operations, LAMBDA op : op.type \in types)
  IN  Concat([n \in 1..Len(sel) |-> sel[n].word.text \o sel[n].word.trailingSpace])

PairedTypes == {"unchanged", "modified", "moved"}

\* C3: for every ParagraphDiff that pairs an original with a revised
\* paragraph, text + trailing separator of the equal and delete operations
\* reproduces the original paragraph and that of the equal and insert
\* operations the revised paragraph. The comparison is made up to the trim
\* of the paragraph (the last token's separator defaults to one space), the
\* reading most favourable to the code.
C3_RoundTrip ==
  pc = "done" =>
    \A n \in 1..Len(Paragraphs) :
      Paragraphs[n].type \in PairedTypes =>
        /\ trim(OpString(Paragraphs[n].operations, {"equal", "delete"}))
             = originalParas[Paragraphs[n].originalIndex + 1]
        /\ trim(OpString(Paragraphs[n].operations, {"equal", "insert"}))
             = revisedParas[Paragraphs[n].revisedIndex + 1]

\* C4: compare(A, A) yields only equal operations and wordsAdded =
\* wordsDeleted = paragraphsMoved = 0.
C4_Idempotent ==
  (pc = "done" /\ originalText = revisedText) =>
    /\ \A n \in 1..Len(Paragraphs) :
         OpCount(Paragraphs[n].operations, {"insert", "delete"}) = 0
    /\ diffResult.stats.wordsAdded = 0
    /\ diffResult.stats.wordsDeleted = 0
    /\ diffResult.stats.paragraphsMoved = 0

\* the number of alignments that carry index i as their field f
TimesAsOriginal(i) ==
  Cardinality({n \in 1..Len(alignments) : alignments[n].originalIndex = i})

TimesAsRevised(j) ==
  Cardinality({n \in 1..Len(alignments) : alignments[n].revisedIndex = j})

\* C5: the alignments alignParagraphs returns hold every original index
\* exactly once as originalIndex and every revised index exactly once as
\* revisedIndex.
C5_Partition ==
  Aligned =>
    /\ \A i \in 0..(Len(originalParas) - 1) : TimesAsOriginal(i) = 1
    /\ \A j \in 0..(Len(revisedParas) - 1) : TimesAsRevised(j) = 1

\* finished alignments of three original paragraphs of which one moved, one
\* was deleted and one was paired in place
C5_Witness ==
  /\ Aligned
  /\ Len(originalParas) = 3
  /\ \E n \in 1..Len(alignments) : alignments[n].type = "moved"
  /\ \E n \in 1..Len(alignments) : alignments[n].type = "deleted"
  /\ \E n \in 1..Len(alignments) : alignments[n].type = "modified"

\* the revised paragraphs are the original ones in another (or the same)
\* order, and the original ones have pairwise distinct fingerprints
IsReordering ==
  /\ Len(originalParas) = Len(revisedParas)
  /\ \A i, j \in 1..Len(originalParas) :
       i # j => fingerprint(originalParas[i]) # fingerprint(originalParas[j])
  /\ \A j \in 1..Len(revisedParas) :
       \E i \in 1..Len(originalParas) : originalParas[i] = revisedParas[j]
  /\ \A i \in 1..Len(originalParas) :
       \E j \in 1..Len(revisedParas) : originalParas[i] = revisedParas[j]

\* the 0-based indices of the revised paragraphs that are not the original
\* paragraph of the same index
Displaced == {j \in 0..(Len(revisedParas) - 1) :
                originalParas[j + 1] # revisedParas[j + 1]}

\* C6: on a reordering of paragraphs of distinct fingerprints, compare
\* reports each displaced paragraph as one moved alignment and each other one
\* as unchanged, paragraphsMoved is the number of displaced paragraphs and
\* wordsAdded = wordsDeleted = 0.
C6_Reordering ==
  (pc = "done" /\ IsReordering) =>
    /\ Len(Paragraphs) = Len(revisedParas)
    /\ \A n \in 1..Len(Paragraphs) :
         /\ Paragraphs[n].revisedIndex = n - 1
         /\ Paragraphs[n].type =
              IF (n - 1) \in Displaced THEN "moved" ELSE "unchanged"
         /\ originalParas[Paragraphs[n].originalIndex + 1] = revisedParas[n]
    /\ diffResult.stats.paragraphsMoved = Cardinality(Displaced)
    /\ diffResult.stats.wordsAdded = 0
    /\ diffResult.stats.wordsDeleted = 0

\* the result of a reordering of three paragraphs that displaces two of them
C6_Witness ==
  /\ pc = "done"
  /\ IsReordering
  /\ Len(originalParas) = 3
  /\ Cardinality(Displaced) = 2

\* C7: every ParagraphDiff of type moved carries a non-null movedFrom, the
\* index of its source paragraph; every other one carries movedFrom = null.
C7_MovedFrom ==
  pc = "done" =>
    \A n \in 1..Len(Paragraphs) :
      IF Paragraphs[n].type = "moved"
      THEN /\ Paragraphs[n].movedFrom # Null
           /\ Paragraphs[n].movedFrom = Paragraphs[n].originalIndex
      ELSE Paragraphs[n].movedFrom = Null

\* C8: the statistics are the counts of the operations of the returned
\* ParagraphDiffs by type, wordsOriginal and wordsRevised their sums, and
\* paragraphsMoved the number of ParagraphDiffs with a non-null movedFrom or
\* movedTo, which is the number of ParagraphDiffs of type moved.
C8_Stats ==
  pc = "done" =>
    LET ops   == Concat([n \in 1..Len(Paragraphs) |-> Paragraphs[n].operations])
        stats == diffResult.stats
    IN  /\ stats.wordsAdded = OpCount(ops, {"insert"})
        /\ stats.wordsDeleted = OpCount(ops, {"delete"})
        /\ stats.wordsUnchanged = OpCount(ops, {"equal"})
        /\ stats.wordsOriginal = stats.wordsDeleted + stats.wordsUnchanged
        /\ stats.wordsRevised = stats.wordsAdded + stats.wordsUnchanged
        /\ stats.paragraphsMoved =
             Cardinality({n \in 1..Len(Paragraphs) :
                            Paragraphs[n].movedFrom # Null
                            \/ Paragraphs[n].movedTo # Null})
        /\ stats.paragraphsMoved =
             Cardinality({n \in 1..Len(Paragraphs) : Paragraphs[n].type = "moved"})

\* a result with words added, deleted and unchanged and with a moved
\* ParagraphDiff of which one move reference is null
C8_Witness ==
  /\ pc = "done"
  /\ diffResult.stats.wordsAdded > 0
  /\ diffResult.stats.wordsDeleted > 0
  /\ diffResult.stats.wordsUnchanged > 0
  /\ \E n \in 1..Len(Paragraphs) :
       Paragraphs[n].type = "moved" /\ Paragraphs[n].movedFrom = Null

\* the ParagraphDiffs of type moved, by their positions in the result
MovedDiffs == {n \in 1..Len(Paragraphs) : Paragraphs[n].type = "moved"}

\* the two paragraphs ParagraphDiff n pairs
OriginalOf(n) == originalParas[Paragraphs[n].originalIndex + 1]

RevisedOf(n) == revisedParas[Paragraphs[n].revisedIndex + 1]

CursorsAdvance(it) ==
  /\ it.origIdx >= origIdx
  /\ it.revIdx >= revIdx
  /\ it.origIdx + it.revIdx > origIdx + revIdx
  /\ it.origIdx <= Len(originalParas)
  /\ it.revIdx <= Len(revisedParas)

\* both cursors are at the ends of their sequences
CursorsAtEnds == origIdx = Len(originalParas) /\ revIdx = Len(revisedParas)

\* C13: compare runs to completion without a failure outcome: every
\* iteration of the alignment walk advances at least one cursor and moves
\* none backwards or past its end, and compare returns, without a failure,
\* exactly when both cursors are at the ends of their sequences.
C13_Total ==
  /\ pc \in {"split", "detect", "align", "done"}
  /\ origIdx \in 0..Len(originalParas)
  /\ revIdx \in 0..Len(revisedParas)
  /\ pc = "done" => CursorsAtEnds
  /\ (pc = "align" /\ ~CursorsAtEnds) =>
       /\ AlignMore
       /\ CursorsAdvance(AlignIteration(originalParas, revisedParas, moves,
                                        origIdx, revIdx))

\* compare has returned after a walk over three original and three revised
\* paragraphs that took iterations advancing one cursor alone: a move
\* destination, a skipped move source and a deleted paragraph
C13_Witness ==
  /\ pc = "done"
  /\ Len(originalParas) = 3
  /\ Len(revisedParas) = 3
  /\ \E n \in 1..Len(alignments) : alignments[n].type = "moved"
  /\ \E n \in 1..Len(alignments) : alignments[n].type = "deleted"
  /\ \E n \in 1..Len(alignments) : alignments[n].type = "added"

\* detectMovedParagraphs has returned
Detected == pc \in {"align", "done"}

\* the positions in moves of the moves from original index i
MovesFrom(i) == {n \in 1..Len(moves) : moves[n].fromIndex = i}

\* the revised indices original paragraph i can move to when its turn comes:
\* those of the same fingerprint, other than i, that no move from an earlier
\* original paragraph has taken
Candidates(i) ==
  {j \in 0..(Len(revisedParas) - 1) :
     /\ j # i
     /\ fingerprint(originalParas[i + 1]) = fingerprint(revisedParas[j + 1])
     /\ \A n \in 1..Len(moves) :
          moves[n].fromIndex < i => moves[n].toIndex # j}

\* C15: every Move has fromIndex # toIndex and equal fingerprints of the two
\* paragraphs; no original index is the fromIndex and no revised index the
\* toIndex of two moves; and each original paragraph, taken in order, has a
\* move exactly when a revised paragraph of the same fingerprint and another
\* index is still unmatched, to the smallest such index.
C15_GreedyMoves ==
  Detected =>
    /\ \A n \in 1..Len(moves) :
         /\ moves[n].fromIndex # moves[n].toIndex
         /\ moves[n].fromIndex \in 0..(Len(originalParas) - 1)
         /\ moves[n].toIndex \in 0..(Len(revisedParas) - 1)
         /\ fingerprint(originalParas[moves[n].fromIndex + 1])
              = fingerprint(revisedParas[moves[n].toIndex + 1])
    /\ \A n, m \in 1..Len(moves) :
         n < m => /\ moves[n].fromIndex < moves[m].fromIndex
                  /\ moves[n].toIndex # moves[m].toIndex
    /\ \A i \in 0..(Len(originalParas) - 1) :
         IF Candidates(i) = {} THEN MovesFrom(i) = {}
         ELSE \E n \in MovesFrom(i) : moves[n].toIndex = SetMin(Candidates(i))

\* the moves of three original paragraphs of one fingerprint: the first two
\* took revised paragraphs, of which one is not the smallest index of that
\* fingerprint, and nothing is left for the third
C15_Witness ==
  /\ Detected
  /\ Len(originalParas) = 3
  /\ Len(moves) = 2
  /\ \E n \in 1..Len(moves) : moves[n].toIndex > moves[n].fromIndex + 1
  /\ \E i \in 0..(Len(originalParas) - 1) :
       /\ MovesFrom(i) = {}
       /\ \E j \in 0..(Len(revisedParas) - 1) :
            j # i /\ fingerprint(originalParas[i + 1])
                       = fingerprint(revisedParas[j + 1])

\* the paragraphs of the sequence have pairwise distinct fingerprints
DistinctFingerprints(paras) ==
  \A i, j \in 1..Len(paras) :
    i # j => fingerprint(paras[i]) # fingerprint(paras[j])

\* the revised paragraphs are the original ones with whole paragraphs
\* deleted and inserted: the fingerprints are pairwise distinct on each
\* side, a paragraph on both sides has the same text on both, and the
\* paragraphs on both sides are in the same relative order
IsInsertDeleteEdit ==
  /\ DistinctFingerprints(originalParas)
  /\ DistinctFingerprints(revisedParas)
  /\ \A i \in 1..Len(originalParas), j \in 1..Len(revisedParas) :
       fingerprint(originalParas[i]) = fingerprint(revisedParas[j])
         => originalParas[i] = revisedParas[j]
  /\ \A i1, i2 \in 1..Len(originalParas), j1, j2 \in 1..Len(revisedParas) :
       (/\ i1 < i2
        /\ originalParas[i1] = revisedParas[j1]
        /\ originalParas[i2] = revisedParas[j2]) => j1 < j2

\* C20: when the revised paragraphs are the original ones with whole
\* paragraphs deleted and inserted, all of distinct fingerprints and the
\* retained ones in their order, compare reports no moved alignment and
\* paragraphsMoved = 0.
C20_NoMoveOnInsertDelete ==
  (pc = "done" /\ IsInsertDeleteEdit) =>
    /\ MovedDiffs = {}
    /\ diffResult.stats.paragraphsMoved = 0

(***************************************************************************)
(* The similarity decision of alignParagraphs (specification SpecBoundary).*)
(***************************************************************************)
\* the next iteration compares the similarity of the two paragraphs at the
\* cursors: both exist, neither takes part in a move, and their fingerprints
\* differ
AtSimilarityDecision ==
  /\ pc = "align"
  /\ origIdx < Len(originalParas)
  /\ revIdx < Len(revisedParas)
  /\ \A n \in 1..Len(moves) :
       moves[n].toIndex # revIdx /\ moves[n].fromIndex # origIdx
  /\ fingerprint(originalParas[origIdx + 1]) # fingerprint(revisedParas[revIdx + 1])

\* a fraction num / den strictly greater than 3/10
ExceedsThreeTenths(num, den) == 10 * num > 3 * den

CursorSimilarity ==
  paragraphSimilarity(originalParas[origIdx + 1], revisedParas[revIdx + 1])

\* the similarity of the next original paragraph to the current revised one
\* exceeds 3/10 (it does not when there is no next original paragraph)
NextOriginalSimilar ==
  /\ origIdx + 1 < Len(originalParas)
  /\ LET sim == paragraphSimilarity(originalParas[origIdx + 2],
                                    revisedParas[revIdx + 1])
     IN  ExceedsThreeTenths(sim.num, sim.den)

NextRevisedSimilar ==
  /\ revIdx + 1 < Len(revisedParas)
  /\ LET sim == paragraphSimilarity(originalParas[origIdx + 1],
                                    revisedParas[revIdx + 2])
     IN  ExceedsThreeTenths(sim.num, sim.den)

\* the step pushes one alignment of the given type
PushesOne(type) ==
  /\ Len(alignments') = Len(alignments) + 1
  /\ SubSeq(alignments', 1, Len(alignments)) = alignments
  /\ alignments'[Len(alignments')].type = type

\* the step pairs the two paragraphs at the cursors as modified
PairsAsModified ==
  /\ PushesOne("modified")
  /\ alignments'[Len(alignments')].originalIndex = origIdx
  /\ alignments'[Len(alignments')].revisedIndex = revIdx
  /\ origIdx' = origIdx + 1
  /\ revIdx' = revIdx + 1

\* the step reports the original paragraph at the cursor as deleted
ReportsDeleted ==
  /\ PushesOne("deleted")
  /\ alignments'[Len(alignments')].originalIndex = origIdx
  /\ origIdx' = origIdx + 1
  /\ revIdx' = revIdx

\* the step reports the revised paragraph at the cursor as added
ReportsAdded ==
  /\ PushesOne("added")
  /\ alignments'[Len(alignments')].revisedIndex = revIdx
  /\ origIdx' = origIdx
  /\ revIdx' = revIdx + 1

\* C9 as stated: at the similarity decision a pair of similarity above 0.3
\* is aligned as one modified pair, and a pair of similarity at most 0.3 is
\* not paired as modified but reported as deleted or added.
C9_Boundary ==
  [][AtSimilarityDecision =>
       IF ExceedsThreeTenths(CursorSimilarity.num, CursorSimilarity.den)
       THEN PairsAsModified
       ELSE ReportsDeleted \/ ReportsAdded]_vars

\* C9 amended: at the similarity decision a pair of similarity above 0.3 is
\* aligned as one modified pair; a pair of similarity at most 0.3 is left to
\* the one-paragraph lookahead and is reported as deleted, reported as added
\* or, exactly when neither lookahead similarity exceeds 0.3, still paired as
\* modified.
C9_BoundaryAmended ==
  [][AtSimilarityDecision =>
       IF ExceedsThreeTenths(CursorSimilarity.num, CursorSimilarity.den)
       THEN PairsAsModified
       ELSE IF NextOriginalSimilar \/ NextRevisedSimilar
            THEN ReportsDeleted \/ ReportsAdded
            ELSE PairsAsModified]_vars

\* the state after the lookahead reported the revised paragraph of a pair
\* of similarity exactly 3/10 as added: the original paragraph of the pair is
\* still at the cursor
C9_Witness ==
  /\ pc = "align"
  /\ alignments # <<>>
  /\ alignments[Len(alignments)].type = "added"
  /\ alignments[Len(alignments)].revisedIndex = revIdx - 1
  /\ origIdx < Len(originalParas)
  /\ paragraphSimilarity(originalParas[origIdx + 1], revisedParas[revIdx])
       = [num |-> 3, den |-> 10]
  /\ fingerprint(originalParas[origIdx + 1]) # fingerprint(revisedParas[revIdx])
  /\ \A n \in 1..Len(moves) : moves[n].fromIndex # origIdx

(***************************************************************************)
(* The lookahead of alignParagraphs (specification SpecLookahead).         *)
(***************************************************************************)
\* s1: the similarity of the next original paragraph to the revised one at
\* the cursor, 0 when there is no next original paragraph
LookaheadOriginal(i, j) ==
  IF i + 1 < Len(originalParas)
  THEN paragraphSimilarity(originalParas[i + 2], revisedParas[j + 1])
  ELSE [num |-> 0, den |-> 1]

\* s2: the similarity of the original paragraph at the cursor to the next
\* revised one, 0 when there is no next revised paragraph
LookaheadRevised(i, j) ==
  IF j + 1 < Len(revisedParas)
  THEN paragraphSimilarity(originalParas[i + 1], revisedParas[j + 2])
  ELSE [num |-> 0, den |-> 1]

\* the fraction a is strictly greater than the fraction b
FractionGreater(a, b) == a.num * b.den > b.num * a.den

\* what the lookahead on s1 and s2 decides
LookaheadDecides(s1, s2) ==
  IF FractionGreater(s1, s2) /\ ExceedsThreeTenths(s1.num, s1.den)
  THEN ReportsDeleted
  ELSE IF ExceedsThreeTenths(s2.num, s2.den)
       THEN ReportsAdded
       ELSE PairsAsModified

\* C19: when both cursors are at paragraphs that take part in no move, have
\* different fingerprints and a similarity of at most 0.3, then with s1 and
\* s2 the two lookahead similarities: if s1 > s2 and s1 > 0.3 the original
\* paragraph is reported deleted and the original cursor alone advances;
\* else if s2 > 0.3 the revised paragraph is reported added and the revised
\* cursor alone advances; else the two paragraphs are paired as modified
\* and both cursors advance.
C19_Lookahead ==
  [][(AtSimilarityDecision
      /\ ~ExceedsThreeTenths(CursorSimilarity.num, CursorSimilarity.den)) =>
       LookaheadDecides(LookaheadOriginal(origIdx, revIdx),
                        LookaheadRevised(origIdx, revIdx))]_vars

\* the state after the lookahead met s1 = s2 > 0.3 and reported the revised
\* paragraph as added: the original paragraph is still at the cursor
C19_Witness ==
  /\ pc = "align"
  /\ moves = <<>>
  /\ alignments # <<>>
  /\ alignments[Len(alignments)].type = "added"
  /\ alignments[Len(alignments)].revisedIndex = revIdx - 1
  /\ origIdx + 1 < Len(originalParas)
  /\ revIdx < Len(revisedParas)
  /\ LookaheadOriginal(origIdx, revIdx - 1) = LookaheadRevised(origIdx, revIdx - 1)
  /\ ExceedsThreeTenths(LookaheadOriginal(origIdx, revIdx - 1).num,
                        LookaheadOriginal(origIdx, revIdx - 1).den)
  /\ paragraphSimilarity(originalParas[origIdx + 1], revisedParas[revIdx]).num = 0

(***************************************************************************)
(* Degenerate inputs (specification SpecRaw).                              *)
(***************************************************************************)
\* the text is empty or holds whitespace only
IsBlank(text) == \A n \in 1..Len(text) : IsSpace(text[n])

\* C10: splitParagraphs returns no paragraph for an empty or whitespace-only
\* text, and compare on two such texts returns an empty paragraph list and
\* six statistics equal to 0.
C10_Degenerate ==
  /\ IsBlank(originalText) => splitParagraphs(originalText) = <<>>
  /\ IsBlank(revisedText) => splitParagraphs(revisedText) = <<>>
  /\ (IsBlank(originalText) /\ IsBlank(revisedText)) =>
       /\ pc # "threw"
       /\ pc # "split" => originalParas = <<>> /\ revisedParas = <<>>
       /\ pc = "done" =>
            /\ Paragraphs = <<>>
            /\ diffResult.stats =
                 [wordsOriginal |-> 0, wordsRevised |-> 0, wordsAdded |-> 0,
                  wordsDeleted |-> 0, wordsUnchanged |-> 0,
                  paragraphsMoved |-> 0]

\* compare has returned on a text of blank lines and a text of spaces
C10_Witness ==
  /\ pc = "done"
  /\ originalText = <<10, 32, 10, 10>>
  /\ revisedText = <<32, 32>>

(***************************************************************************)
(* Properties of fingerprint (specification SpecFingerprint).              *)
(***************************************************************************)
\* the letters and digits of a piece of text, in lower case
LettersOf(piece) == toLowerCase(SelectSeq(piece, LAMBDA c : IsLetterOrNumber(c)))

\* the words of a text: its maximal runs of non-whitespace characters,
\* reduced to their letters and digits in lower case, the empty ones dropped
WordsOf(text) ==
  LET pieces == SplitSpaces(text, 1, 1)
  IN  SelectSeq([n \in 1..Len(pieces) |-> LettersOf(pieces[n])],
                LAMBDA w : w # <<>>)

\* the two texts differ at most in letter case, in punctuation and in the
\* amount of whitespace
SameWords(s, t) == WordsOf(s) = WordsOf(t)

\* C11: two texts that differ only in letter case, in punctuation or symbol
\* characters, or in the amount of whitespace have the same fingerprint.
C11_Fingerprint ==
  (Len(fp) = 2 /\ SameWords(originalText, revisedText)) => fp[1] = fp[2]

\* both fingerprints are computed, of "A , a" and of "a a"
C11_Witness ==
  /\ Len(fp) = 2
  /\ originalText = <<65, 32, 44, 32, 97>>
  /\ revisedText = <<97, 32, 97>>
  /\ fp[1] = fp[2]

(***************************************************************************)
(* Properties of the debounce (specification SpecApp).                     *)
(***************************************************************************)
\* the step is an input event
IsInput == inputs' = inputs + 1

\* the step runs runComparison: a timer goes and none comes
RunsComparison == Cardinality(timers') < Cardinality(timers)

\* the diffResult of the current values of the text areas: null when one of
\* them is blank, their comparison otherwise
CurrentResult ==
  IF IsBlank(elements.originalText) \/ IsBlank(elements.revisedText)
  THEN <<>>
  ELSE <<compare(elements.originalText, elements.revisedText)>>

ResultIsCurrent == state.diffResult = CurrentResult

\* C14: at most one comparison timer is pending; an input event leaves its
\* own timer, with the whole delay to go, as the only pending one;
\* runComparison runs only when debounceDelay has passed since the last
\* input event and stores the result of the values the text areas have
\* then; and eventually no timer is pending and the stored diffResult is
\* that of the final texts.
C14_Debounce ==
  /\ [](Cardinality(timers) <= 1)
  /\ [][IsInput =>
          timers' = {[id |-> state'.debounceTimer,
                      remaining |-> debounceDelay]}]_vars
  /\ [][RunsComparison =>
          /\ elapsed >= debounceDelay
          /\ elements' = elements
          /\ state'.diffResult = CurrentResult]_vars
  /\ <>[](timers = {} /\ ResultIsCurrent)

\* the comparison has run once, after three input events of which the last
\* two cancelled a pending timer, and stored the result of the final texts
C14_Witness ==
  /\ inputs = 3
  /\ timers = {}
  /\ state.debounceTimer = 3
  /\ elements.originalText = <<97, 32, 98, 10, 10, 100>>
  /\ elements.revisedText = <<100, 10, 10, 97, 32, 98>>
  /\ state.diffResult # <<>>
  /\ state.diffResult[1].stats.paragraphsMoved = 2

(***************************************************************************)
(* Order of the returned paragraph list (specification Spec).              *)
(***************************************************************************)
\* the ParagraphDiffs of the result that have a revisedIndex, in list order
WithRevisedIndex ==
  SelectSeq(Paragraphs, LAMBDA para : para.revisedIndex # Null)

\* the ParagraphDiffs that are not moved and have an originalIndex, in list
\* order
UnmovedWithOriginalIndex ==
  SelectSeq(Paragraphs,
            LAMBDA para : para.type # "moved" /\ para.originalIndex # Null)

\* C21: in the paragraph list compare returns, the ParagraphDiffs with a
\* revisedIndex carry 0, 1, 2, ... in list order, one for every revised
\* paragraph, and the ParagraphDiffs that are not moved and have an
\* originalIndex carry strictly increasing original indices.
C21_IndexOrder ==
  pc = "done" =>
    /\ Len(WithRevisedIndex) = Len(revisedParas)
    /\ \A n \in 1..Len(WithRevisedIndex) :
         WithRevisedIndex[n].revisedIndex = n - 1
    /\ \A m, n \in 1..Len(UnmovedWithOriginalIndex) :
         m < n => UnmovedWithOriginalIndex[m].originalIndex
                    < UnmovedWithOriginalIndex[n].originalIndex

\* a returned list where a moved paragraph comes before a paired one with a
\* smaller originalIndex (the moved ones are out of original order), an
\* original index is skipped by the unmoved ones, and a paragraph without
\* revisedIndex sits between two with one
C21_Witness ==
  /\ pc = "done"
  /\ \E m, n \in 1..Len(Paragraphs) :
       /\ m < n
       /\ Paragraphs[m].type = "moved"
       /\ Paragraphs[n].type \in {"unchanged", "modified"}
       /\ Paragraphs[n].originalIndex < Paragraphs[m].originalIndex
  /\ \E l, m, n \in 1..Len(Paragraphs) :
       /\ l < m /\ m < n
       /\ Paragraphs[l].revisedIndex # Null
       /\ Paragraphs[m].revisedIndex = Null
       /\ Paragraphs[n].revisedIndex # Null

(***************************************************************************)
(* Properties of the modal (specification SpecModal).                      *)
(***************************************************************************)
\* the modal overlay is shown
OverlayShown == "active" \in elements.modalOverlay

\* C22: whenever the modal overlay has class active, state.activeModal is
\* not null and is the target of the most recent openModal; a timer
\* closeModal set before that openModal does not reset it.
C22_ActiveModal ==
  OverlayShown => state.activeModal # <<>> /\ state.activeModal = lastOpened

=============================================================================
